---- MODULE Spec2Model ----
(***************************************************************************)
(* Inspector "complete inspection" page of vehicle_check                   *)
(* (InspectorInspectionsPage): the score entry model, the verdict          *)
(* calculator and the submission flow, together with the two collaborators *)
(* it talks to (appointment service, check-item catalog) and the error     *)
(* formatter.                                                              *)
(*                                                                         *)
(* JavaScript arrays are 0-based, TLA+ sequences 1-based: the score of     *)
(* JavaScript index i is itemScores[i + 1].  Strings whose characters      *)
(* matter (score inputs, the observation) are sequences of one-character   *)
(* strings.                                                                *)
(***************************************************************************)
EXTENDS Integers, Sequences, FiniteSets, TLC

(***************************************************************************)
(* Program constants                                                       *)
(***************************************************************************)
NumItems == 8
MinItemScore == 0
MaxItemScore == 10
FailFloor == 5
PassTotal == 40
MaxTotal == 80

(***************************************************************************)
(* Bounds of the model                                                     *)
(***************************************************************************)
MaxTemplates == 9
NumAppts == 2
MaxLoads == 2
MaxPending == 2

(***************************************************************************)
(* JavaScript values that are not integers, encoded as negative integers   *)
(***************************************************************************)
Hole == -1
Undefined == -2
NaN == -3

Appts == 1..NumAppts
Statuses == {"PENDING", "CONFIRMED", "COMPLETED", "CANCELLED"}

\* an appointment object as the page reads it: its id and its status
Appointment(a, st) == [id |-> a, status |-> st]
AppointmentObjects == { Appointment(a, st) : a \in Appts, st \in Statuses }

\* useState(null) of selectedAppointment
NoAppointment == [id |-> 0, status |-> "NONE"]

PagePath == "/inspector/inspections"
LoginPath == "/login"

VARIABLES
  location,             \* window.location of the browser tab
  appointments,         \* useState([]) : the listed appointments
  checkItems,           \* useState([]) : ordinals of the loaded templates
  loading,              \* useState(true)
  error,                \* useState('')
  isOpen,               \* useState(false)
  selectedAppointment,  \* useState(null)
  itemScores,           \* useState(Array(8).fill(0))
  observation,          \* useState('')
  formLoading,          \* useState(false)
  formError,            \* useState('')
  toast,                \* the toast emitted by the last step, if any
  requests,             \* completeAppointment requests in flight
  apptLoads,            \* listAppointments requests in flight
  itemsLoad,            \* listTemplates request in flight?
  user,                 \* AuthProvider: useState(null)
  authLoading,          \* AuthProvider: useState(true), its loading
  localStorage,         \* the items 'token' and 'user' of localStorage
  authCalls,            \* requests of authService in flight, per endpoint
  isCreateMode,         \* AppointmentManagementPage: useState(false)
  editingAppointment,   \* AppointmentManagementPage: useState(null)
  formData,             \* AppointmentManagementPage: useState({...})
  calls,                \* create/update/cancelAppointment calls in flight
  rejected,             \* api.js: what the response interceptor rejected with last
  completedIds          \* appointments completed from the page since the last
                        \* list answer

\* what the interceptor handed back last and what the backend has completed
historyVars == <<rejected, completedIds>>

\* the state of AuthProvider, the stored session and its requests
sessionVars == <<user, authLoading, localStorage, authCalls>>

\* the state that only AppointmentManagementPage has
managementVars == <<isCreateMode, editingAppointment, formData, calls>>

\* the state that only InspectorInspectionsPage has
inspectionVars == <<checkItems, selectedAppointment, itemScores, observation,
                    requests, itemsLoad>>

vars == <<location, appointments, checkItems, loading, error, isOpen,
          selectedAppointment, itemScores, observation, formLoading,
          formError, toast, requests, apptLoads, itemsLoad, user,
          authLoading, localStorage, authCalls, isCreateMode,
          editingAppointment, formData, calls,
          rejected, completedIds>>

(***************************************************************************)
(* Strings as character sequences                                          *)
(***************************************************************************)
Digits == {"0", "1", "2", "3", "4", "5", "6", "7", "8", "9"}
Whitespace == {" "}

DigitValue(c) ==
  CASE c = "0" -> 0 [] c = "1" -> 1 [] c = "2" -> 2 [] c = "3" -> 3
    [] c = "4" -> 4 [] c = "5" -> 5 [] c = "6" -> 6 [] c = "7" -> 7
    [] c = "8" -> 8 [] c = "9" -> 9

RECURSIVE TrimStart(_)
TrimStart(s) ==
  IF s # <<>> /\ Head(s) \in Whitespace THEN TrimStart(Tail(s)) ELSE s

RECURSIVE TrimEnd(_)
TrimEnd(s) ==
  IF s # <<>> /\ s[Len(s)] \in Whitespace
  THEN TrimEnd(SubSeq(s, 1, Len(s) - 1))
  ELSE s

\* String.prototype.trim
trim(s) == TrimEnd(TrimStart(s))

\* the digits at the start of s, folded into a number; acc is the value so
\* far and seen says whether a digit has been read
RECURSIVE ParseDigits(_, _, _)
ParseDigits(s, acc, seen) ==
  IF s # <<>> /\ Head(s) \in Digits
  THEN ParseDigits(Tail(s), 10 * acc + DigitValue(Head(s)), TRUE)
  ELSE IF seen THEN acc ELSE NaN

\* parseInt(value): leading white space is skipped, a sign is accepted, the
\* longest prefix of decimal digits is converted and the rest of the string
\* is ignored; NaN when there is no digit to convert
parseInt(value) ==
  LET s == TrimStart(value)
      negative == s # <<>> /\ Head(s) = "-"
      body == IF s # <<>> /\ Head(s) \in {"-", "+"} THEN Tail(s) ELSE s
      n == ParseDigits(body, 0, FALSE)
  IN  IF n = NaN THEN NaN ELSE IF negative THEN 0 - n ELSE n

Min2(a, b) == IF a < b THEN a ELSE b
Max2(a, b) == IF a > b THEN a ELSE b

(***************************************************************************)
(* Score entry model                                                       *)
(***************************************************************************)
\* Array(8).fill(0)
ZeroScores == [i \in 1..NumItems |-> 0]

\* [...itemScores] : the copy is dense, a hole is read as undefined
Spread(arr) == [i \in 1..Len(arr) |-> IF arr[i] = Hole THEN Undefined ELSE arr[i]]

\* arr[index] = v on a JavaScript array: writing past the end grows the
\* array and leaves holes in between
SetAt(arr, index, v) ==
  IF index < Len(arr)
  THEN [arr EXCEPT ![index + 1] = v]
  ELSE [i \in 1..(index + 1) |->
          IF i <= Len(arr) THEN arr[i] ELSE IF i = index + 1 THEN v ELSE Hole]

\* parseInt(value) || 0, then Math.max(0, Math.min(10, numValue))
ClampScore(value) ==
  LET parsed == parseInt(value)
      numValue == IF parsed = NaN \/ parsed = 0 THEN 0 ELSE parsed
  IN  Max2(MinItemScore, Min2(MaxItemScore, numValue))

(***************************************************************************)
(* Verdict calculator                                                      *)
(***************************************************************************)
\* itemScores.reduce((sum, score) => sum + score, 0): reduce skips holes,
\* adding undefined gives NaN and NaN stays NaN
RECURSIVE Reduce(_, _)
Reduce(arr, sum) ==
  IF arr = <<>> THEN sum
  ELSE IF Head(arr) = Hole THEN Reduce(Tail(arr), sum)
  ELSE IF sum = NaN \/ Head(arr) = Undefined THEN Reduce(Tail(arr), NaN)
  ELSE Reduce(Tail(arr), sum + Head(arr))

calculateTotalScoreOf(scores) == Reduce(scores, 0)

\* itemScores.some(score => score < 5): some skips holes, undefined < 5 is
\* false
hasFailingItemOf(scores) ==
  \E i \in 1..Len(scores) :
    scores[i] # Hole /\ scores[i] # Undefined /\ scores[i] < FailFloor

\* variant: the total has to exceed the threshold
isPassedOf_StrictTotal(scores) ==
  LET total == calculateTotalScoreOf(scores)
  IN  total # NaN /\ total > PassTotal /\ ~hasFailingItemOf(scores)

isPassedOf(scores) ==
  LET total == calculateTotalScoreOf(scores)
  IN  total # NaN /\ total >= PassTotal /\ ~hasFailingItemOf(scores)

calculateTotalScore == calculateTotalScoreOf(itemScores)
hasFailingItem == hasFailingItemOf(itemScores)
isPassed == isPassedOf(itemScores)

(***************************************************************************)
(* Error formatter (utils/validation.js) and the errors of the API client  *)
(***************************************************************************)
NoDetail == [kind |-> "none", text |-> "", entries |-> <<>>]
StringDetail(t) == [kind |-> "string", text |-> t, entries |-> <<>>]
ListDetail(es) == [kind |-> "list", text |-> "", entries |-> es]

\* an Axios error: error.response may be missing, error.response.status,
\* error.response.data.detail
NetworkError == [hasResponse |-> FALSE, status |-> 0, detail |-> NoDetail]
HttpError(st, d) == [hasResponse |-> TRUE, status |-> st, detail |-> d]

ToUpperCase(c) ==
  CASE c = "a" -> "A" [] c = "b" -> "B" [] c = "c" -> "C" [] c = "d" -> "D"
    [] c = "e" -> "E" [] c = "f" -> "F" [] c = "i" -> "I" [] c = "l" -> "L"
    [] c = "m" -> "M" [] c = "o" -> "O" [] c = "p" -> "P" [] c = "r" -> "R"
    [] c = "s" -> "S" [] c = "t" -> "T" [] OTHER -> c

RECURSIVE Chars(_)
Chars(cs) == IF cs = <<>> THEN "" ELSE Head(cs) \o Chars(Tail(cs))

\* one entry of a validation list: field is the text of the last element of
\* loc (the empty sequence when loc is missing or empty), numeric tells that
\* this element is a number and not a string, msg is the text
Entry(field, numeric, msg) == [field |-> field, numeric |-> numeric, msg |-> msg]

\* the formatter throws: field.charAt is not a function
Thrown == "TypeError"

\* if (field): a non-empty string or a number other than 0; charAt exists on
\* strings only
EntryMessage(e) ==
  IF e.numeric
  THEN IF e.field = <<"0">> THEN e.msg ELSE Thrown
  ELSE IF e.field # <<>>
  THEN ToUpperCase(Head(e.field)) \o Chars(Tail(e.field)) \o ": " \o e.msg
  ELSE e.msg

\* detail.map(...).join(', '); an exception in the callback ends the map
RECURSIVE Join(_)
Join(es) ==
  IF es = <<>> THEN ""
  ELSE IF EntryMessage(es[1]) = Thrown THEN Thrown
  ELSE IF Len(es) = 1 THEN EntryMessage(es[1])
  ELSE IF Join(Tail(es)) = Thrown THEN Thrown
  ELSE EntryMessage(es[1]) \o ", " \o Join(Tail(es))

StatusMessage(err) ==
  IF ~err.hasResponse THEN "Error en la conexion con el servidor"
  ELSE CASE err.status = 400 -> "Datos invalidos"
         [] err.status = 401 -> "No autorizado"
         [] err.status = 403 -> "Acceso denegado"
         [] err.status = 404 -> "No encontrado"
         [] err.status = 422 -> "Error de validacion"
         [] err.status = 500 -> "Error del servidor"
         [] OTHER -> "Error en la conexion con el servidor"

getApiErrorMessage(err) ==
  IF err.hasResponse /\ err.detail.kind = "string" /\ err.detail.text # ""
  THEN err.detail.text
  ELSE IF err.hasResponse /\ err.detail.kind = "list"
  THEN Join(err.detail.entries)
  ELSE StatusMessage(err)

\* response interceptor of services/api.js: a 401 from an endpoint other
\* than /auth/login clears the session and navigates to /login
RedirectsToLogin(err) == err.hasResponse /\ err.status = 401

EmptySubmissionMessage == "Debe asignar puntajes a los items de chequeo"
ScoreOverflowMessage == "El puntaje total no puede exceder 80"

\* the errors the collaborating services answer with in this model
ApiErrors ==
  { NetworkError,
    HttpError(401, NoDetail),
    HttpError(422, ListDetail(<<>>)) }

LoadErrors == { NetworkError, HttpError(401, NoDetail) }

(***************************************************************************)
(* Inputs                                                                  *)
(***************************************************************************)
\* what the inspector types into a score field in the page model
ScoreInputs == { <<"1", "0">> }

\* what may reach handleScoreChange as value
RawValues ==
  { <<>>, <<"a", "b", "c">>, <<"-">>, <<"-", "5">>, <<"1", "5">>, <<"0">>,
    <<"4">>, <<"5">>, <<"1", "0">>, <<"4", "a">> }

ObservationInputs == { <<" ", "o", "k", " ">> }

(***************************************************************************)
(* Toasts and request bodies                                               *)
(***************************************************************************)
NoToast == [shown |-> FALSE, total |-> 0, passed |-> FALSE, failReason |-> FALSE]

\* owner_observation: observation.trim() || undefined
OwnerObservation(obs) ==
  IF trim(obs) = <<>> THEN [present |-> FALSE, text |-> <<>>]
  ELSE [present |-> TRUE, text |-> trim(obs)]

ResultData(scores, obs) ==
  [ total_score |-> calculateTotalScoreOf(scores),
    item_scores |-> scores,
    owner_observation |-> OwnerObservation(obs) ]

RemoveAt(s, i) == [j \in 1..(Len(s) - 1) |-> IF j < i THEN s[j] ELSE s[j + 1]]

(***************************************************************************)
(* The session: users, the stored items and the requests of authService    *)
(***************************************************************************)
Roles == {"CLIENT", "INSPECTOR", "ADMIN"}

\* user?.role when there is no user, or no role on it
NoRole == ""

\* the user objects that /users/me answers with
User(n, r) == [id |-> n, role |-> r]
Users == { User(1, "CLIENT"), User(2, "INSPECTOR"), User(3, "ADMIN") }

\* useState(null) of user
NoUser == User(0, NoRole)

\* the access tokens that /auth/login answers with
Tokens == {"jwt-1", "jwt-2"}

\* JSON.stringify(user): the text kept under 'user'
JSONstringify(u) ==
  <<CHOOSE c \in Digits : DigitValue(c) = u.id, u.role>>

\* JSON.parse(userStr)
JSONparse(userStr) == User(DigitValue(userStr[1]), userStr[2])

\* localStorage.getItem answers null for a missing item: "" for the token,
\* the empty text for the user
NoItems == [token |-> "", user |-> <<>>]

\* authService.getStoredToken
getStoredToken == localStorage.token

\* authService.getStoredUser: userStr ? JSON.parse(userStr) : null
StoredUserOf(items) ==
  IF items.user # <<>> THEN JSONparse(items.user) ELSE NoUser

getStoredUser == StoredUserOf(localStorage)

\* no request of authService in flight
NoAuthCalls == [login |-> 0, me |-> 0, logout |-> 0, register |-> 0]

\* the session of a user who has logged in, with nothing in flight
LoggedIn(u) ==
  /\ user = u
  /\ authLoading = FALSE
  /\ localStorage = [token |-> "jwt-1", user |-> JSONstringify(u)]
  /\ authCalls = NoAuthCalls

\* nothing has been rejected and nothing has been completed
NoHistory ==
  /\ rejected = <<>>
  /\ completedIds = {}

\* useState of the appointment form
EmptyForm == [slot_id |-> ""]

\* AppointmentManagementPage is not mounted
NoManagement ==
  /\ isCreateMode = FALSE
  /\ editingAppointment = NoAppointment
  /\ formData = EmptyForm
  /\ calls = <<>>

(***************************************************************************)
(* Initial state: the component has mounted and its effect has called      *)
(* loadAppointments() and loadCheckItems()                                 *)
(***************************************************************************)
Init ==
  /\ location = PagePath
  /\ appointments = <<>>
  /\ checkItems = <<>>
  /\ loading = TRUE
  /\ error = ""
  /\ isOpen = FALSE
  /\ selectedAppointment = NoAppointment
  /\ itemScores = ZeroScores
  /\ observation = <<>>
  /\ formLoading = FALSE
  /\ formError = ""
  /\ toast = NoToast
  /\ requests = <<>>
  /\ apptLoads = 1
  /\ itemsLoad = TRUE
  /\ LoggedIn(User(2, "INSPECTOR"))
  /\ NoManagement
  /\ NoHistory

Mounted == location = PagePath

\* the response interceptor on a 401: the stored session is removed and the
\* browser loads /login, so every component and pending callback is gone
\* and AuthProvider is constructed anew
Unload ==
  /\ location' = LoginPath
  /\ appointments' = <<>>
  /\ checkItems' = <<>>
  /\ loading' = TRUE
  /\ error' = ""
  /\ isOpen' = FALSE
  /\ selectedAppointment' = NoAppointment
  /\ itemScores' = ZeroScores
  /\ observation' = <<>>
  /\ formLoading' = FALSE
  /\ formError' = ""
  /\ toast' = NoToast
  /\ requests' = <<>>
  /\ apptLoads' = 0
  /\ itemsLoad' = FALSE
  /\ localStorage' = NoItems
  /\ user' = NoUser
  /\ authLoading' = TRUE
  /\ authCalls' = NoAuthCalls
  /\ isCreateMode' = FALSE
  /\ editingAppointment' = NoAppointment
  /\ formData' = EmptyForm
  /\ calls' = <<>>
  /\ rejected' = <<>>
  /\ completedIds' = {}

(***************************************************************************)
(* loadAppointments                                                        *)
(***************************************************************************)
\* date_time of an appointment: appointment 1 is the latest
DateTime(apt) == NumAppts - apt.id

\* appointmentsList.filter(apt => apt.status === 'CONFIRMED')
Confirmed(appointmentsList) ==
  { apt \in appointmentsList : apt.status = "CONFIRMED" }

\* .sort((a, b) => new Date(a.date_time) - new Date(b.date_time))
RECURSIVE SortByDate(_)
SortByDate(S) ==
  IF S = {} THEN <<>>
  ELSE LET first == CHOOSE a \in S : \A b \in S : DateTime(a) <= DateTime(b)
       IN  <<first>> \o SortByDate(S \ {first})

\* what listAppointments may answer: the status of every appointment of the
\* inspector; the appointments that are not CONFIRMED share one of the
\* other statuses
AppointmentResponses ==
  { { Appointment(a, IF a \in C THEN "CONFIRMED" ELSE other) : a \in Appts } :
      C \in SUBSET Appts, other \in Statuses \ {"CONFIRMED"} }

\* sortedAppointments = appointmentsList.filter(...).sort(...):
\* the lists the page may receive, one for every answer
ConfirmedLists ==
  { SortByDate(Confirmed(resp)) : resp \in AppointmentResponses }

\* the synchronous part of loadAppointments
StartLoadAppointments ==
  /\ loading' = TRUE
  /\ error' = ""
  /\ apptLoads' = apptLoads + 1

clickActualizar ==
  /\ Mounted
  /\ ~isOpen
  /\ ~loading
  /\ apptLoads < MaxLoads
  /\ StartLoadAppointments
  /\ toast' = NoToast
  /\ UNCHANGED <<historyVars, sessionVars, managementVars, location, appointments, checkItems, isOpen, selectedAppointment,
                 itemScores, observation, formLoading, formError, requests,
                 itemsLoad>>

listAppointmentsResolves ==
  /\ Mounted
  /\ apptLoads > 0
  /\ \E sortedAppointments \in ConfirmedLists :
       appointments' = sortedAppointments
  /\ loading' = FALSE
  /\ completedIds' = {}
  /\ apptLoads' = apptLoads - 1
  /\ toast' = NoToast
  /\ UNCHANGED <<rejected, sessionVars, managementVars, location, checkItems, error, isOpen, selectedAppointment,
                 itemScores, observation, formLoading, formError, requests,
                 itemsLoad>>

listAppointmentsRejects ==
  /\ Mounted
  /\ apptLoads > 0
  /\ \E err \in LoadErrors :
       IF RedirectsToLogin(err) THEN Unload
       ELSE /\ error' = getApiErrorMessage(err)
            /\ loading' = FALSE
            /\ apptLoads' = apptLoads - 1
            /\ toast' = NoToast
            /\ UNCHANGED <<historyVars, sessionVars, managementVars, location, appointments, checkItems, isOpen,
                           selectedAppointment, itemScores, observation,
                           formLoading, formError, requests, itemsLoad>>

(***************************************************************************)
(* loadCheckItems                                                          *)
(***************************************************************************)
listTemplatesResolves ==
  /\ Mounted
  /\ itemsLoad
  /\ \E k \in 0..MaxTemplates : checkItems' = [i \in 1..k |-> i]
  /\ itemsLoad' = FALSE
  /\ toast' = NoToast
  /\ UNCHANGED <<historyVars, sessionVars, managementVars, location, appointments, loading, error, isOpen,
                 selectedAppointment, itemScores, observation, formLoading,
                 formError, requests, apptLoads>>

listTemplatesRejects ==
  /\ Mounted
  /\ itemsLoad
  /\ \E err \in LoadErrors :
       IF RedirectsToLogin(err) THEN Unload
       ELSE /\ itemsLoad' = FALSE
            /\ toast' = NoToast
            /\ UNCHANGED <<historyVars, sessionVars, managementVars, location, appointments, checkItems, loading, error,
                           isOpen, selectedAppointment, itemScores, observation,
                           formLoading, formError, requests, apptLoads>>

(***************************************************************************)
(* The inspection dialog                                                   *)
(***************************************************************************)
\* variant: the scores of the earlier session are kept
handleStartInspection_KeepScores(appointment) ==
  /\ Mounted
  /\ ~loading
  /\ ~isOpen
  /\ \E i \in 1..Len(appointments) : appointments[i] = appointment
  /\ selectedAppointment' = appointment
  /\ observation' = <<>>
  /\ formError' = ""
  /\ isOpen' = TRUE
  /\ toast' = NoToast
  /\ UNCHANGED <<historyVars, sessionVars, managementVars, location, appointments, checkItems, loading, error,
                 itemScores, formLoading, requests, apptLoads, itemsLoad>>

\* the start button of a table row; the table is rendered when not loading
\* and the open dialog covers it
handleStartInspection(appointment) ==
  /\ Mounted
  /\ ~loading
  /\ ~isOpen
  /\ \E i \in 1..Len(appointments) : appointments[i] = appointment
  /\ selectedAppointment' = appointment
  /\ itemScores' = ZeroScores
  /\ observation' = <<>>
  /\ formError' = ""
  /\ isOpen' = TRUE
  /\ toast' = NoToast
  /\ UNCHANGED <<historyVars, sessionVars, managementVars, location, appointments, checkItems, loading, error,
                 formLoading, requests, apptLoads, itemsLoad>>

\* variant: the eight score inputs are rendered whatever has been loaded
ScoreInputRendered_AllEight(index) ==
  /\ isOpen
  /\ selectedAppointment # NoAppointment
  /\ index \in 0..(NumItems - 1)
  /\ ~formLoading

\* a score input is rendered for every loaded template and is disabled
\* while formLoading
ScoreInputRendered(index) ==
  /\ isOpen
  /\ selectedAppointment # NoAppointment
  /\ index \in 0..(Len(checkItems) - 1)
  /\ ~formLoading

\* variant: the new array is started from zeros, not from the old scores
handleScoreChange_ResetsOthers(index, value) ==
  /\ Mounted
  /\ ScoreInputRendered(index)
  /\ itemScores' = SetAt(ZeroScores, index, ClampScore(value))
  /\ formError' = ""
  /\ toast' = NoToast
  /\ UNCHANGED <<historyVars, sessionVars, managementVars, location, appointments, checkItems, loading, error, isOpen,
                 selectedAppointment, observation, formLoading, requests,
                 apptLoads, itemsLoad>>

handleScoreChange(index, value) ==
  /\ Mounted
  /\ ScoreInputRendered(index)
  /\ itemScores' = SetAt(Spread(itemScores), index, ClampScore(value))
  /\ formError' = ""
  /\ toast' = NoToast
  /\ UNCHANGED <<historyVars, sessionVars, managementVars, location, appointments, checkItems, loading, error, isOpen,
                 selectedAppointment, observation, formLoading, requests,
                 apptLoads, itemsLoad>>

\* Textarea onChange: setObservation(e.target.value)
changeObservation(text) ==
  /\ Mounted
  /\ isOpen
  /\ selectedAppointment # NoAppointment
  /\ ~formLoading
  /\ observation' = text
  /\ toast' = NoToast
  /\ UNCHANGED <<historyVars, sessionVars, managementVars, location, appointments, checkItems, loading, error, isOpen,
                 selectedAppointment, itemScores, formLoading, formError,
                 requests, apptLoads, itemsLoad>>

\* Modal onClose and the Cancelar button: setIsOpen(false)
closeModal ==
  /\ Mounted
  /\ isOpen
  /\ isOpen' = FALSE
  /\ toast' = NoToast
  /\ UNCHANGED <<historyVars, sessionVars, managementVars, location, appointments, checkItems, loading, error,
                 selectedAppointment, itemScores, observation, formLoading,
                 formError, requests, apptLoads, itemsLoad>>

(***************************************************************************)
(* Submission flow                                                         *)
(***************************************************************************)
\* the submit button: isLoading={formLoading} isDisabled={totalScore === 0}
\* variant: the button does not look at formLoading
SubmitLoading_Ignored == FALSE

SubmitLoading == formLoading
SubmitDisabled == calculateTotalScore = 0
SubmitEnabled == isOpen /\ ~SubmitLoading /\ ~SubmitDisabled

\* variant: the first validation only catches a negative total
IsEmptySubmission_Negative(totalScore) == totalScore # NaN /\ totalScore < 0

\* if (totalScore === 0)
IsEmptySubmission(totalScore) == totalScore = 0

\* variant: a validation that fails leaves the loading flag set
handleSubmitBody_StaysLoading ==
  LET totalScore == calculateTotalScore
  IN  /\ Len(requests) < MaxPending
      /\ IF IsEmptySubmission(totalScore)
         THEN /\ formError' = EmptySubmissionMessage
              /\ formLoading' = TRUE
              /\ requests' = requests
         ELSE IF totalScore # NaN /\ totalScore > MaxTotal
         THEN /\ formError' = ScoreOverflowMessage
              /\ formLoading' = TRUE
              /\ requests' = requests
         ELSE /\ formError' = ""
              /\ formLoading' = TRUE
              /\ requests' = Append(requests,
                   [ appointmentId |-> selectedAppointment.id,
                     body |-> ResultData(itemScores, observation) ])
      /\ toast' = NoToast
      /\ UNCHANGED <<historyVars, sessionVars, managementVars, location, appointments, checkItems, loading, error,
                     isOpen, selectedAppointment, itemScores, observation,
                     apptLoads, itemsLoad>>

\* variant: the total is not checked against 80
handleSubmitBody_NoOverflowCheck ==
  LET totalScore == calculateTotalScore
  IN  /\ Len(requests) < MaxPending
      /\ IF IsEmptySubmission(totalScore)
         THEN /\ formError' = EmptySubmissionMessage
              /\ formLoading' = FALSE
              /\ requests' = requests
         ELSE IF FALSE
         THEN /\ formError' = ScoreOverflowMessage
              /\ formLoading' = FALSE
              /\ requests' = requests
         ELSE /\ formError' = ""
              /\ formLoading' = TRUE
              /\ requests' = Append(requests,
                   [ appointmentId |-> selectedAppointment.id,
                     body |-> ResultData(itemScores, observation) ])
      /\ toast' = NoToast
      /\ UNCHANGED <<historyVars, sessionVars, managementVars, location, appointments, checkItems, loading, error,
                     isOpen, selectedAppointment, itemScores, observation,
                     apptLoads, itemsLoad>>

\* handleSubmit up to the await: the two validations, then the request
handleSubmitBody ==
  LET totalScore == calculateTotalScore
  IN  /\ Len(requests) < MaxPending
      /\ IF IsEmptySubmission(totalScore)
         THEN /\ formError' = EmptySubmissionMessage
              /\ formLoading' = FALSE
              /\ requests' = requests
         ELSE IF totalScore # NaN /\ totalScore > MaxTotal
         THEN /\ formError' = ScoreOverflowMessage
              /\ formLoading' = FALSE
              /\ requests' = requests
         ELSE /\ formError' = ""
              /\ formLoading' = TRUE
              /\ requests' = Append(requests,
                   [ appointmentId |-> selectedAppointment.id,
                     body |-> ResultData(itemScores, observation) ])
      /\ toast' = NoToast
      /\ UNCHANGED <<historyVars, sessionVars, managementVars, location, appointments, checkItems, loading, error,
                     isOpen, selectedAppointment, itemScores, observation,
                     apptLoads, itemsLoad>>

\* a click on the enabled submit button
handleSubmit ==
  /\ Mounted
  /\ SubmitEnabled
  /\ handleSubmitBody

\* handleSubmit run on an open dialog whatever the isDisabled prop says
invokeHandleSubmit ==
  /\ Mounted
  /\ isOpen
  /\ ~SubmitLoading
  /\ handleSubmitBody

\* the toast of the success path; the handler reads totalScore, isPassed()
\* and hasFailingItem() of the render in which the button was clicked
\* variant: the toast reads the scores of the page when the answer arrives
SuccessToast_LiveScores(req) ==
  [ shown |-> TRUE,
    total |-> calculateTotalScore,
    passed |-> isPassed,
    failReason |-> ~isPassed /\ hasFailingItem ]

SuccessToast(req) ==
  [ shown |-> TRUE,
    total |-> req.body.total_score,
    passed |-> isPassedOf(req.body.item_scores),
    failReason |-> ~isPassedOf(req.body.item_scores)
                   /\ hasFailingItemOf(req.body.item_scores) ]

\* the request is answered with the completed appointment: what the handler
\* does after the await
completeAppointmentAnswered(i) ==
  /\ Mounted
  /\ i \in 1..Len(requests)
  /\ apptLoads < MaxLoads
  /\ toast' = SuccessToast(requests[i])
  /\ isOpen' = FALSE
  /\ StartLoadAppointments
  /\ formLoading' = FALSE
  /\ requests' = RemoveAt(requests, i)
  /\ UNCHANGED <<rejected, sessionVars, managementVars, location, appointments, checkItems, selectedAppointment,
                 itemScores, observation, formError, itemsLoad>>

\* the answer, in the page alone
completeAppointmentResolves(i) ==
  /\ completeAppointmentAnswered(i)
  /\ completedIds' = completedIds

\* the answer, with the backend's side of it: the appointment is completed
completeAppointmentRecorded(i) ==
  /\ completeAppointmentAnswered(i)
  /\ completedIds' = completedIds \cup {requests[i].appointmentId}

\* variant: no finally, formLoading stays as it is after a failure
completeAppointmentRejects_NoFinally(i, err) ==
  /\ Mounted
  /\ i \in 1..Len(requests)
  /\ IF RedirectsToLogin(err) THEN Unload
     ELSE /\ formError' = getApiErrorMessage(err)
          /\ requests' = RemoveAt(requests, i)
          /\ toast' = NoToast
          /\ UNCHANGED <<historyVars, sessionVars, managementVars, location, appointments, checkItems, loading, error,
                         isOpen, selectedAppointment, itemScores, observation,
                         formLoading, apptLoads, itemsLoad>>

\* the request fails: catch and finally of handleSubmit
completeAppointmentRejects(i, err) ==
  /\ Mounted
  /\ i \in 1..Len(requests)
  /\ IF RedirectsToLogin(err) THEN Unload
     ELSE /\ formError' = getApiErrorMessage(err)
          /\ formLoading' = FALSE
          /\ requests' = RemoveAt(requests, i)
          /\ toast' = NoToast
          /\ UNCHANGED <<historyVars, sessionVars, managementVars, location, appointments, checkItems, loading, error,
                         isOpen, selectedAppointment, itemScores, observation,
                         apptLoads, itemsLoad>>

(***************************************************************************)
(* Specifications                                                          *)
(***************************************************************************)
\* the inspector of the page model scores field after field: the first
\* score goes into any field, the next ones into a field that has a score or
\* is next to one
Entered(index) ==
  index \in 0..(Len(itemScores) - 1) /\ itemScores[index + 1] > 0

NextToEntered(index) ==
  \/ \A other \in 0..(Len(itemScores) - 1) : ~Entered(other)
  \/ Entered(index - 1)
  \/ Entered(index)
  \/ Entered(index + 1)

scoreInput == \E index \in 0..(MaxTemplates - 1), value \in ScoreInputs :
                NextToEntered(index) /\ handleScoreChange(index, value)
observationInput == \E text \in ObservationInputs : changeObservation(text)
startInspection == \E apt \in AppointmentObjects : handleStartInspection(apt)
completeResolves == \E i \in 1..MaxPending : completeAppointmentResolves(i)
completeRejects == \E i \in 1..MaxPending, err \in ApiErrors :
                     completeAppointmentRejects(i, err)

Next ==
  \/ clickActualizar
  \/ listAppointmentsResolves
  \/ listAppointmentsRejects
  \/ listTemplatesRejects
  \/ listTemplatesResolves
  \/ startInspection
  \/ scoreInput
  \/ observationInput
  \/ closeModal
  \/ handleSubmit
  \/ completeResolves
  \/ completeRejects

Spec == Init /\ [][Next]_vars

\* the page together with what the backend has completed for it
completeRecorded == \E i \in 1..MaxPending : completeAppointmentRecorded(i)

NextHistory ==
  \/ clickActualizar
  \/ listAppointmentsResolves
  \/ listAppointmentsRejects
  \/ listTemplatesRejects
  \/ listTemplatesResolves
  \/ startInspection
  \/ scoreInput
  \/ observationInput
  \/ closeModal
  \/ handleSubmit
  \/ completeRecorded
  \/ completeRejects

SpecHistory == Init /\ [][NextHistory]_vars

\* the page with handleSubmit also run as a function on the open dialog,
\* which reaches the validation that the disabled button masks
NextHandler == Next \/ invokeHandleSubmit

SpecHandler == Init /\ [][NextHandler]_vars

\* the score entry model alone: a dialog open on an appointment with the
\* eight templates loaded, and any raw value arriving at handleScoreChange
InitScore ==
  /\ location = PagePath
  /\ appointments = SortByDate({ Appointment(a, "CONFIRMED") : a \in Appts })
  /\ checkItems = [i \in 1..NumItems |-> i]
  /\ loading = FALSE
  /\ error = ""
  /\ isOpen = TRUE
  /\ selectedAppointment = Appointment(1, "CONFIRMED")
  /\ itemScores = ZeroScores
  /\ observation = <<>>
  /\ formLoading = FALSE
  /\ formError = ""
  /\ toast = NoToast
  /\ requests = <<>>
  /\ apptLoads = 0
  /\ itemsLoad = FALSE
  /\ LoggedIn(User(2, "INSPECTOR"))
  /\ NoManagement
  /\ NoHistory

rawScoreInput == \E index \in 0..(NumItems - 1), value \in RawValues :
                   handleScoreChange(index, value)

NextScore == rawScoreInput

SpecScore == InitScore /\ [][NextScore]_vars

(***************************************************************************)
(* Properties                                                              *)
(***************************************************************************)
\* the sum of a score sequence, counted value by value
RECURSIVE SumUpTo(_, _)
SumUpTo(scores, v) ==
  IF v = 0 THEN 0
  ELSE v * Cardinality({i \in 1..Len(scores) : scores[i] = v})
       + SumUpTo(scores, v - 1)

SumOfScores(scores) == SumUpTo(scores, MaxItemScore)

IsScoreVector(scores) ==
  /\ Len(scores) = NumItems
  /\ \A i \in 1..NumItems : scores[i] \in MinItemScore..MaxItemScore

NoScoreBelowFloor(scores) == \A i \in 1..Len(scores) : scores[i] >= FailFloor

SevenTensAndAFour == [i \in 1..NumItems |-> IF i = NumItems THEN 4 ELSE 10]
AllFives == [i \in 1..NumItems |-> 5]

\* C1: for eight scores in 0..10, isPassed() is true exactly when the sum of
\* the scores is at least 40 and no score is below 5; seven 10s and one 4
\* (sum 74) fail, all 5s (sum 40) pass.
C1_PassedIffTotalAndNoVeto ==
  /\ IsScoreVector(itemScores) =>
       /\ calculateTotalScore = SumOfScores(itemScores)
       /\ isPassed <=> (SumOfScores(itemScores) >= 40 /\ NoScoreBelowFloor(itemScores))
  /\ calculateTotalScoreOf(SevenTensAndAFour) = 74
  /\ ~isPassedOf(SevenTensAndAFour)
  /\ calculateTotalScoreOf(AllFives) = 40
  /\ isPassedOf(AllFives)

\* a high total vetoed by one item below 5 has been entered
C1_Witness ==
  /\ itemScores = SevenTensAndAFour
  /\ calculateTotalScore >= 40
  /\ ~isPassed

\* what the claim says is stored for a raw value: a decimal integer literal
\* is numeric, anything else is not
AllDigits(s) == s # <<>> /\ \A i \in 1..Len(s) : s[i] \in Digits

IsNumeric(value) ==
  \/ AllDigits(value)
  \/ value # <<>> /\ Head(value) = "-" /\ AllDigits(Tail(value))

NumericValue(value) ==
  IF Head(value) = "-" THEN 0 - ParseDigits(Tail(value), 0, FALSE)
  ELSE ParseDigits(value, 0, FALSE)

ClaimedScore(value) ==
  IF ~IsNumeric(value) THEN 0
  ELSE IF NumericValue(value) < 0 THEN 0
  ELSE IF NumericValue(value) > 10 THEN 10
  ELSE NumericValue(value)

\* C2: after handleScoreChange(index, rawValue) the score stored at index
\* is 0 when rawValue is non-numeric or below 0, 10 when it is above 10 and
\* rawValue itself when it is an integer in 0..10; no error is raised.
C2_StoredScoreAsClaimed ==
  [][\A index \in 0..(NumItems - 1), value \in RawValues :
       handleScoreChange(index, value) =>
         /\ itemScores'[index + 1] = ClaimedScore(value)
         /\ formError' = ""]_vars

\* C3: the item-score sequence always has exactly 8 entries.
C3_ExactlyEightScores == Len(itemScores) = NumItems

\* C4: the total lies in 0..80, every stored score lies in 0..10, and the
\* overflow branch of handleSubmit is never taken.
C4_TotalWithinRange ==
  /\ calculateTotalScore \in 0..MaxTotal
  /\ \A i \in 1..Len(itemScores) : itemScores[i] \in MinItemScore..MaxItemScore
  /\ formError # ScoreOverflowMessage

\* C5: handleSubmit run with a total of 0 ends with the EmptySubmission
\* error, sends no request and leaves the dialog open on the same
\* appointment with the same scores.
C5_EmptySubmissionRejectedLocally ==
  [][(invokeHandleSubmit /\ calculateTotalScore = 0) =>
       /\ formError' = EmptySubmissionMessage
       /\ requests' = requests
       /\ ~formLoading'
       /\ isOpen'
       /\ selectedAppointment' = selectedAppointment
       /\ itemScores' = itemScores
       /\ observation' = observation]_vars

\* the validation error is shown on an open dialog with nothing in flight
C5_Witness ==
  /\ formError = EmptySubmissionMessage
  /\ isOpen
  /\ calculateTotalScore = 0
  /\ requests = <<>>
  /\ ~formLoading

\* what every failed request leaves behind according to the claim
StaysInScoring(err) ==
  /\ Mounted'
  /\ isOpen' = isOpen
  /\ selectedAppointment' = selectedAppointment
  /\ itemScores' = itemScores
  /\ observation' = observation
  /\ formError' = getApiErrorMessage(err)
  /\ ~formLoading'
  /\ Len(requests') = Len(requests) - 1
  /\ (isOpen /\ calculateTotalScore # 0) => SubmitEnabled'

C7_AtMostOneRequestInFlight ==
  /\ Len(requests) <= 1
  /\ requests # <<>> => (formLoading /\ ~SubmitEnabled)

\* a request is in flight while the dialog, dismissed and opened again,
\* shows a fresh session
C7_Witness ==
  /\ Len(requests) = 1
  /\ isOpen
  /\ itemScores = ZeroScores
  /\ requests[1].body.total_score # 0

\* C8: every request body has total_score equal to the sum of the
\* item_scores sent, 8 item_scores each in 0..10, a total_score in 1..80 and
\* the trimmed observation as owner_observation, omitted when empty.
C8_RequestBodyWellFormed ==
  [][Len(requests') > Len(requests) =>
       LET body == requests'[Len(requests')].body
       IN  /\ IsScoreVector(body.item_scores)
           /\ body.total_score = SumOfScores(body.item_scores)
           /\ body.total_score \in 1..MaxTotal
           /\ body.owner_observation.present = (trim(observation) # <<>>)
           /\ body.owner_observation.present =>
                body.owner_observation.text = trim(observation)]_vars

SentScoreBelowFloor(scores) ==
  \E i \in 1..Len(scores) : scores[i] \in MinItemScore..(FailFloor - 1)

ExampleScores == <<8, 7, 9, 8, 7, 8, 9, 9>>

\* C9: a successful answer closes the dialog and the confirmation reports
\* the total that was sent, a verdict equal to (total >= 40 and no sent score
\* below 5) and the failing-item reason exactly when a sent score is below
\* 5; for the scores 8,7,9,8,7,8,9,9 it reports 65, passed.
C9_SuccessReportsSentVerdict ==
  /\ SuccessToast([appointmentId |-> 1, body |-> ResultData(ExampleScores, <<>>)])
       = [shown |-> TRUE, total |-> 65, passed |-> TRUE, failReason |-> FALSE]
  /\ [][\A i \in 1..MaxPending :
          completeAppointmentResolves(i) =>
            LET body == requests[i].body
            IN  /\ ~isOpen'
                /\ toast'.shown
                /\ toast'.total = body.total_score
                /\ toast'.passed = (/\ body.total_score >= 40
                                    /\ ~SentScoreBelowFloor(body.item_scores))
                /\ toast'.failReason = SentScoreBelowFloor(body.item_scores)]_vars

\* the confirmation of a passed inspection has just been shown
C9_Witness ==
  /\ toast.shown
  /\ toast.passed
  /\ ~toast.failReason
  /\ ~isOpen

\* C10: starting an inspection sets the eight scores to 0, so the total is
\* 0, and clears the observation and the form error, whatever the earlier
\* session left.
C10_StartResetsForm ==
  [][\A a \in AppointmentObjects :
       handleStartInspection(a) =>
         /\ itemScores' = [i \in 1..8 |-> 0]
         /\ calculateTotalScoreOf(itemScores') = 0
         /\ observation' = <<>>
         /\ formError' = ""
         /\ isOpen'
         /\ selectedAppointment' = a]_vars

\* a new session is open on another appointment than the one whose request
\* is still in flight
C10_Witness ==
  /\ isOpen
  /\ requests # <<>>
  /\ requests[1].appointmentId # selectedAppointment.id
  /\ itemScores = ZeroScores
  /\ observation = <<>>
  /\ formError = ""

\* the appointment is a row of the table
Listed(apt) == \E i \in 1..Len(appointments) : appointments[i] = apt

\* C11: the table only offers appointments that are CONFIRMED in the list
\* loaded last, a session is only started for such an appointment, and a
\* completeAppointment request is only sent for an appointment that is
\* CONFIRMED in the list loaded last.
C11_OnlyConfirmedOfLatestList ==
  [][/\ \A i \in 1..Len(appointments') : appointments'[i].status = "CONFIRMED"
     /\ \A apt \in AppointmentObjects :
          handleStartInspection(apt) =>
            apt.status = "CONFIRMED" /\ Listed(apt)
     /\ Len(requests') > Len(requests) =>
          /\ selectedAppointment.status = "CONFIRMED"
          /\ Listed(selectedAppointment)]_vars

(***************************************************************************)
(* The catalog and the order of the scores                                 *)
(***************************************************************************)
\* the ordinals of S in ascending order
RECURSIVE SortByOrdinal(_)
SortByOrdinal(S) ==
  IF S = {} THEN <<>>
  ELSE LET first == CHOOSE o \in S : \A other \in S : o <= other
       IN  <<first>> \o SortByOrdinal(S \ {first})

\* what the catalog may answer: templates with different ordinals of 1..8,
\* ordered by ordinal; the page model above takes the answers 1..k of it
TemplateLists == { SortByOrdinal(S) : S \in SUBSET (1..NumItems) }

\* what the inspector types into a score field in the catalog model
CatalogInputs == { <<"7">> }

\* a dialog open on an appointment, with any answer of the catalog loaded
InitCatalog ==
  /\ location = PagePath
  /\ appointments = SortByDate({ Appointment(a, "CONFIRMED") : a \in Appts })
  /\ checkItems \in TemplateLists
  /\ loading = FALSE
  /\ error = ""
  /\ isOpen = TRUE
  /\ selectedAppointment = Appointment(1, "CONFIRMED")
  /\ itemScores = ZeroScores
  /\ observation = <<>>
  /\ formLoading = FALSE
  /\ formError = ""
  /\ toast = NoToast
  /\ requests = <<>>
  /\ apptLoads = 0
  /\ itemsLoad = FALSE
  /\ LoggedIn(User(2, "INSPECTOR"))
  /\ NoManagement
  /\ NoHistory

catalogScoreInput == \E index \in 0..(NumItems - 1), value \in CatalogInputs :
                       handleScoreChange(index, value)

NextCatalog == catalogScoreInput \/ handleSubmit

SpecCatalog == InitCatalog /\ [][NextCatalog]_vars

\* the ordinal of the template whose score field has the index
OrdinalAt(index) == checkItems[index + 1]

\* C12: in the item_scores sent, the entry at position ordinal - 1 is the
\* score entered in the field of the template with that ordinal, for every
\* template of the loaded list.
C12_ItemScoresOrderedByOrdinal ==
  [][Len(requests') > Len(requests) =>
       LET body == requests'[Len(requests')].body
       IN  \A index \in 0..(Len(checkItems) - 1) :
             body.item_scores[(OrdinalAt(index) - 1) + 1] = itemScores[index + 1]]_vars

(***************************************************************************)
(* The routes of App and ProtectedRoute                                    *)
(***************************************************************************)
RegisterPath == "/register"
DashboardPath == "/"
VehiclesPath == "/vehicles"

\* the allowedRoles prop: left out, or a list of roles
AnyUser == [specified |-> FALSE, roles |-> {}]
Only(roles) == [specified |-> TRUE, roles |-> roles]

\* a route outside ProtectedRoute, and a route inside one
PublicRoute == [protected |-> FALSE, allowedRoles |-> AnyUser]
ProtectedBy(allowedRoles) == [protected |-> TRUE, allowedRoles |-> allowedRoles]

AdminPaths ==
  { "/admin/clients", "/admin/inspectors", "/admin/admins",
    "/admin/availability-slots", "/admin/check-items", "/admin/results" }

\* <Routes> of App
AppRoutes ==
  [ path \in {LoginPath, RegisterPath} |-> PublicRoute ] @@
  [ path \in {DashboardPath, "/profile", "/annual-inspections",
              "/appointments", "/results"} |-> ProtectedBy(AnyUser) ] @@
  [ path \in {VehiclesPath} |-> ProtectedBy(Only({"CLIENT", "ADMIN"})) ] @@
  [ path \in {PagePath} |-> ProtectedBy(Only({"INSPECTOR"})) ] @@
  [ path \in AdminPaths |-> ProtectedBy(Only({"ADMIN"})) ]

\* <Routes> of src/frontend/src/App.jsx, which has fewer pages
AppRoutesOfSrc ==
  [ path \in {LoginPath, RegisterPath} |-> PublicRoute ] @@
  [ path \in {DashboardPath, "/profile"} |-> ProtectedBy(AnyUser) ] @@
  [ path \in {VehiclesPath} |-> ProtectedBy(Only({"CLIENT", "ADMIN"})) ] @@
  [ path \in {"/admin/clients", "/admin/inspectors", "/admin/admins"} |->
      ProtectedBy(Only({"ADMIN"})) ]

RouteTables == {AppRoutes, AppRoutesOfSrc}

\* the paths the browser is sent to: the routes and a path without route
Paths == (DOMAIN AppRoutes) \cup {"/no-such-page"}

\* what a route element renders
Spinner == [element |-> "Spinner", to |-> ""]
NavigateTo(path) == [element |-> "Navigate", to |-> path]
AccessDenied == [element |-> "AccessDenied", to |-> ""]
Page == [element |-> "Page", to |-> ""]
Nothing == [element |-> "Nothing", to |-> ""]

\* allowedRoles && !allowedRoles.includes(user.role)
\* variant: every role is let through
RoleDenied_Never(allowedRoles, role) == FALSE

RoleDenied(allowedRoles, role) ==
  allowedRoles.specified /\ role \notin allowedRoles.roles

\* variant: no redirect of a visitor without user
ProtectedRoute_NoUserCheck(allowedRoles) ==
  IF authLoading THEN Spinner
  ELSE IF RoleDenied(allowedRoles, user.role) THEN AccessDenied
  ELSE Page

\* variant: the route does not wait for the session check
ProtectedRoute_NoLoadingCheck(allowedRoles) ==
  IF user = NoUser THEN NavigateTo(LoginPath)
  ELSE IF RoleDenied(allowedRoles, user.role) THEN AccessDenied
  ELSE Page

\* ProtectedRoute; <Outlet /> renders the page of the route
ProtectedRoute(allowedRoles) ==
  IF authLoading THEN Spinner
  ELSE IF user = NoUser THEN NavigateTo(LoginPath)
  ELSE IF RoleDenied(allowedRoles, user.role) THEN AccessDenied
  ELSE Page

\* what <Routes> renders at a path
RenderedAt(routes, path) ==
  IF path \notin DOMAIN routes THEN Nothing
  ELSE IF ~routes[path].protected THEN Page
  ELSE ProtectedRoute(routes[path].allowedRoles)

Rendered == RenderedAt(AppRoutes, location)

\* isAuthenticated: !!user
isAuthenticated == user # NoUser

(***************************************************************************)
(* AuthProvider, authService and the pages that call them                  *)
(***************************************************************************)
\* the state of the two pages while neither has been mounted
pageVars == <<appointments, checkItems, loading, error, isOpen,
              selectedAppointment, itemScores, observation, formLoading,
              formError, toast, requests, apptLoads, itemsLoad>>

NoPage ==
  /\ appointments = <<>>
  /\ checkItems = <<>>
  /\ loading = TRUE
  /\ error = ""
  /\ isOpen = FALSE
  /\ selectedAppointment = NoAppointment
  /\ itemScores = ZeroScores
  /\ observation = <<>>
  /\ formLoading = FALSE
  /\ formError = ""
  /\ toast = NoToast
  /\ requests = <<>>
  /\ apptLoads = 0
  /\ itemsLoad = FALSE

\* the browser opens the application at some path for the first time:
\* AuthProvider has been constructed and its effect has not run yet
InitAuth ==
  /\ location \in Paths
  /\ NoPage
  /\ NoManagement
  /\ NoHistory
  /\ user = NoUser
  /\ authLoading = TRUE
  /\ localStorage = NoItems
  /\ authCalls = NoAuthCalls

AuthCallsInFlight ==
  authCalls.login + authCalls.me + authCalls.logout + authCalls.register

\* variant: the stored session is not looked at
initAuth_NeverRestores ==
  /\ authLoading
  /\ user' = user
  /\ authLoading' = FALSE
  /\ UNCHANGED <<historyVars, location, pageVars, managementVars, localStorage, authCalls>>

\* the effect of AuthProvider, run once after it is mounted
initAuth ==
  /\ authLoading
  /\ LET token == getStoredToken
         storedUser == getStoredUser
     IN  user' = IF token # "" /\ storedUser # NoUser THEN storedUser ELSE user
  /\ authLoading' = FALSE
  /\ UNCHANGED <<historyVars, location, pageVars, managementVars, localStorage, authCalls>>

\* LoginPage.handleSubmit up to the await: login(credentials) posts to
\* /auth/login
handleLoginSubmit ==
  /\ ~authLoading
  /\ location = LoginPath
  /\ AuthCallsInFlight < MaxPending
  /\ authCalls' = [authCalls EXCEPT !.login = @ + 1]
  /\ UNCHANGED <<historyVars, location, pageVars, managementVars, user, authLoading,
                 localStorage>>

\* /auth/login answers: authService.login stores the token, then
\* AuthProvider.login calls getCurrentUser
loginResolves(access_token) ==
  /\ authCalls.login > 0
  /\ localStorage' = [localStorage EXCEPT !.token = access_token]
  /\ authCalls' = [authCalls EXCEPT !.login = @ - 1, !.me = @ + 1]
  /\ UNCHANGED <<historyVars, location, pageVars, managementVars, user, authLoading>>

\* /auth/login fails; the interceptor leaves this endpoint alone and
\* LoginPage shows the message
loginRejects ==
  /\ authCalls.login > 0
  /\ authCalls' = [authCalls EXCEPT !.login = @ - 1]
  /\ UNCHANGED <<historyVars, location, pageVars, managementVars, user, authLoading,
                 localStorage>>

\* variant: the fetched user is not written to localStorage
getCurrentUserResolves_NotStored(u) ==
  /\ authCalls.me > 0
  /\ user' = u
  /\ location' = DashboardPath
  /\ authCalls' = [authCalls EXCEPT !.me = @ - 1]
  /\ UNCHANGED <<historyVars, pageVars, managementVars, authLoading, localStorage>>

\* /users/me answers: getCurrentUser stores the user, login sets it and
\* LoginPage navigates to the dashboard
getCurrentUserResolves(u) ==
  /\ authCalls.me > 0
  /\ localStorage' = [localStorage EXCEPT !.user = JSONstringify(u)]
  /\ user' = u
  /\ location' = DashboardPath
  /\ authCalls' = [authCalls EXCEPT !.me = @ - 1]
  /\ UNCHANGED <<historyVars, pageVars, managementVars, authLoading>>

\* /users/me fails
getCurrentUserRejects(err) ==
  /\ authCalls.me > 0
  /\ IF RedirectsToLogin(err) THEN Unload
     ELSE /\ authCalls' = [authCalls EXCEPT !.me = @ - 1]
          /\ UNCHANGED <<historyVars, location, pageVars, managementVars, user,
                         authLoading, localStorage>>

\* Navbar.handleLogout up to the await; the bar is rendered for a user
handleLogout ==
  /\ ~authLoading
  /\ user # NoUser
  /\ AuthCallsInFlight < MaxPending
  /\ authCalls' = [authCalls EXCEPT !.logout = @ + 1]
  /\ UNCHANGED <<historyVars, location, pageVars, managementVars, user, authLoading,
                 localStorage>>

\* /auth/logout answers: the finally of authService.logout, setUser(null)
\* of AuthProvider.logout and navigate('/login') of the bar
logoutResolves ==
  /\ authCalls.logout > 0
  /\ localStorage' = NoItems
  /\ user' = NoUser
  /\ location' = LoginPath
  /\ authCalls' = [authCalls EXCEPT !.logout = @ - 1]
  /\ UNCHANGED <<historyVars, pageVars, managementVars, authLoading>>

\* /auth/logout fails: the finally of authService.logout runs and the
\* error goes up through AuthProvider.logout and handleLogout
logoutRejects(err) ==
  /\ authCalls.logout > 0
  /\ IF RedirectsToLogin(err) THEN Unload
     ELSE /\ localStorage' = NoItems
          /\ authCalls' = [authCalls EXCEPT !.logout = @ - 1]
          /\ UNCHANGED <<historyVars, location, pageVars, managementVars, user,
                         authLoading>>

\* RegisterPage.handleSubmit up to the await: register(formData) posts to
\* /auth/register
handleRegisterSubmit ==
  /\ ~authLoading
  /\ location = RegisterPath
  /\ AuthCallsInFlight < MaxPending
  /\ authCalls' = [authCalls EXCEPT !.register = @ + 1]
  /\ UNCHANGED <<historyVars, location, pageVars, managementVars, user,
                 authLoading, localStorage>>

\* /auth/register answers: AuthProvider.register returns the new user and
\* RegisterPage navigates to /login; nobody is logged in by it
registerResolves ==
  /\ authCalls.register > 0
  /\ location' = LoginPath
  /\ authCalls' = [authCalls EXCEPT !.register = @ - 1]
  /\ UNCHANGED <<historyVars, pageVars, managementVars, user, authLoading,
                 localStorage>>

\* /auth/register fails
registerRejects(err) ==
  /\ authCalls.register > 0
  /\ IF RedirectsToLogin(err) THEN Unload
     ELSE /\ authCalls' = [authCalls EXCEPT !.register = @ - 1]
          /\ UNCHANGED <<historyVars, location, pageVars, managementVars,
                         user, authLoading, localStorage>>

\* a link, a navigate() of a page or the history moves the router
navigate(path) ==
  /\ ~authLoading
  /\ path # location
  /\ location' = path
  /\ UNCHANGED <<historyVars, pageVars, managementVars, sessionVars>>

\* the <Navigate> element that ProtectedRoute renders
Navigate ==
  /\ Rendered.element = "Navigate"
  /\ location' = Rendered.to
  /\ UNCHANGED <<historyVars, pageVars, managementVars, sessionVars>>

\* the browser loads the application again at the same path
reload ==
  /\ ~authLoading
  /\ user' = NoUser
  /\ authLoading' = TRUE
  /\ authCalls' = NoAuthCalls
  /\ UNCHANGED <<historyVars, location, pageVars, managementVars, localStorage>>

loginAnswers == \E access_token \in Tokens : loginResolves(access_token)
userAnswers == \E u \in Users : getCurrentUserResolves(u)
userFetchFails == \E err \in LoadErrors : getCurrentUserRejects(err)
logoutFails == \E err \in LoadErrors : logoutRejects(err)
followLink == \E path \in Paths : navigate(path)
registerFails == \E err \in LoadErrors : registerRejects(err)

NextAuth ==
  \/ initAuth
  \/ handleLoginSubmit
  \/ loginAnswers
  \/ loginRejects
  \/ userAnswers
  \/ userFetchFails
  \/ handleLogout
  \/ logoutResolves
  \/ logoutFails
  \/ handleRegisterSubmit
  \/ registerResolves
  \/ registerFails
  \/ followLink
  \/ Navigate
  \/ reload

SpecAuth == InitAuth /\ [][NextAuth]_vars

(***************************************************************************)
(* Properties of the routes and of the session                             *)
(***************************************************************************)
ProtectedPaths(routes) == { path \in DOMAIN routes : routes[path].protected }

GatedPaths(routes) ==
  { path \in ProtectedPaths(routes) : routes[path].allowedRoles.specified }

\* C13: every route but /login and /register is protected; for a visitor
\* without user a protected route never renders its page, and once loading
\* is false it renders the redirect to /login.
C13_UnauthenticatedRedirected ==
  \A routes \in RouteTables :
    /\ ProtectedPaths(routes) = (DOMAIN routes) \ {LoginPath, RegisterPath}
    /\ user = NoUser =>
         \A path \in ProtectedPaths(routes) :
           /\ RenderedAt(routes, path) # Page
           /\ ~authLoading => RenderedAt(routes, path) = NavigateTo(LoginPath)

\* a visitor without user, who still holds a token, stands on a protected
\* route after loading and is being redirected
C13_Witness ==
  /\ ~authLoading
  /\ user = NoUser
  /\ localStorage.token # ""
  /\ location \in ProtectedPaths(AppRoutes)
  /\ Rendered = NavigateTo(LoginPath)

\* C14: for a logged-in user a role-gated route renders its page when the
\* role is one of allowedRoles and Access Denied otherwise; /vehicles is
\* rendered only for CLIENT and ADMIN, /inspector/inspections only for
\* INSPECTOR and the /admin pages only for ADMIN.
C14_RoleGatedRoutes ==
  (~authLoading /\ user # NoUser) =>
    /\ \A routes \in RouteTables :
         \A path \in GatedPaths(routes) :
           RenderedAt(routes, path) =
             IF user.role \in routes[path].allowedRoles.roles
             THEN Page ELSE AccessDenied
    /\ \A routes \in RouteTables :
         /\ RenderedAt(routes, VehiclesPath) = Page
              <=> user.role \in {"CLIENT", "ADMIN"}
         /\ RenderedAt(routes, PagePath) = Page => user.role = "INSPECTOR"
         /\ \A path \in AdminPaths :
              RenderedAt(routes, path) = Page => user.role = "ADMIN"
    /\ RenderedAt(AppRoutes, PagePath) = Page <=> user.role = "INSPECTOR"
    /\ \A path \in AdminPaths :
         RenderedAt(AppRoutes, path) = Page <=> user.role = "ADMIN"
    /\ GatedPaths(AppRoutes) = {VehiclesPath, PagePath} \cup AdminPaths

\* a client stands on the inspector's page and is denied
C14_Witness ==
  /\ ~authLoading
  /\ user.role = "CLIENT"
  /\ location = PagePath
  /\ Rendered = AccessDenied

\* C16: when logout() has finished, by the success or by the failure of
\* /auth/logout, the stored token and user are removed and the user in
\* memory is null.
C16_LogoutClearsSession ==
  [][(logoutResolves \/ logoutFails) =>
       (localStorage' = NoItems /\ user' = NoUser)]_vars

\* C17: the effect of AuthProvider restores the stored user exactly when a
\* token and a user are stored, loading is false after it in both cases,
\* and isAuthenticated is (user is not null) throughout.
C17_SessionRestoredOnMount ==
  /\ isAuthenticated = (user # NoUser)
  /\ [][/\ isAuthenticated' = (user' # NoUser)
        /\ initAuth =>
             /\ ~authLoading'
             /\ (user' # NoUser)
                  <=> (localStorage.token # "" /\ localStorage.user # <<>>)
             /\ user' # NoUser =>
                  (user' = JSONparse(localStorage.user) /\ user' \in Users)]_vars

\* after a reload the stored user is in memory again, away from the pages
\* a login leads to
C17_Witness ==
  /\ ~authLoading
  /\ user \in Users
  /\ user = getStoredUser
  /\ localStorage.token # ""
  /\ authCalls = NoAuthCalls
  /\ location = "/profile"

\* C18 as stated: a successful login stores the token and then fetches the
\* user; when the fetch succeeds the user in memory and the stored user are
\* the fetched user; a rejected login fetches no user and leaves user, token
\* and stored user alone; a rejected fetch leaves the user in memory alone.
C18_LoginOutcomes ==
  [][/\ \A access_token \in Tokens :
          loginResolves(access_token) =>
            /\ localStorage'.token = access_token
            /\ authCalls'.me = authCalls.me + 1
     /\ \A u \in Users :
          getCurrentUserResolves(u) =>
            (user' = u /\ StoredUserOf(localStorage') = u)
     /\ loginRejects =>
          /\ authCalls'.me = authCalls.me
          /\ user' = user
          /\ localStorage' = localStorage
     /\ \A err \in LoadErrors :
          getCurrentUserRejects(err) => user' = user]_vars

\* C18 as amended: a fetch rejected with a 401 ends in the interceptor,
\* which removes the stored session and loads /login without user.
C18_LoginOutcomesUnless401 ==
  [][/\ \A access_token \in Tokens :
          loginResolves(access_token) =>
            /\ localStorage'.token = access_token
            /\ authCalls'.me = authCalls.me + 1
     /\ \A u \in Users :
          getCurrentUserResolves(u) =>
            (user' = u /\ StoredUserOf(localStorage') = u)
     /\ loginRejects =>
          /\ authCalls'.me = authCalls.me
          /\ user' = user
          /\ localStorage' = localStorage
     /\ \A err \in LoadErrors :
          getCurrentUserRejects(err) =>
            IF RedirectsToLogin(err)
            THEN /\ user' = NoUser
                 /\ localStorage' = NoItems
                 /\ location' = LoginPath
            ELSE user' = user /\ localStorage' = localStorage]_vars

\* a second login of a logged-in user has stored its token and its user
\* fetch has failed: the first user is still in memory
C18_Witness ==
  /\ user \in Users
  /\ getStoredUser = user
  /\ localStorage.token = "jwt-2"
  /\ authCalls = NoAuthCalls
  /\ location = LoginPath

(***************************************************************************)
(* AppointmentManagementPage                                               *)
(***************************************************************************)
AppointmentsPath == "/appointments"

ManagementMounted == location = AppointmentsPath

isAdminOf(u) == u.role = "ADMIN"
isInspectorOf(u) == u.role = "INSPECTOR"
isClientOf(u) == u.role = "CLIENT"

isAdmin == isAdminOf(user)
isInspector == isInspectorOf(user)
isClient == isClientOf(user)

\* variant: an inspector edits what an admin edits
canEditAs_InspectorToo(u, appointment) ==
  IF appointment.status = "COMPLETED" \/ appointment.status = "CANCELLED"
  THEN FALSE
  ELSE IF isAdminOf(u) \/ isInspectorOf(u) THEN TRUE
  ELSE IF isClientOf(u) THEN TRUE
  ELSE FALSE

\* canEdit, for the user u of the render
canEditAs(u, appointment) ==
  IF appointment.status = "COMPLETED" \/ appointment.status = "CANCELLED"
  THEN FALSE
  ELSE IF isAdminOf(u) THEN TRUE
  ELSE IF isClientOf(u) THEN TRUE
  ELSE FALSE

\* variant: a cancelled appointment can be cancelled again
canCancelAs_CancelledToo(u, appointment) ==
  IF appointment.status = "COMPLETED" THEN FALSE
  ELSE IF isAdminOf(u) THEN TRUE
  ELSE IF isClientOf(u) THEN TRUE
  ELSE FALSE

\* canCancel, for the user u of the render
canCancelAs(u, appointment) ==
  IF appointment.status = "COMPLETED" THEN FALSE
  ELSE IF appointment.status = "CANCELLED" THEN FALSE
  ELSE IF isAdminOf(u) THEN TRUE
  ELSE IF isClientOf(u) THEN TRUE
  ELSE FALSE

canEdit(appointment) == canEditAs(user, appointment)
canCancel(appointment) == canCancelAs(user, appointment)

\* {(isAdmin || isClient) && <Button onClick={handleCreate}>}
CreateButtonRendered == isAdmin \/ isClient

\* the rows are rendered when not loading and the open modal covers them
RowRendered(appointment) == ~loading /\ ~isOpen /\ Listed(appointment)

\* .sort((a, b) => new Date(b.date_time) - new Date(a.date_time))
RECURSIVE SortNewestFirst(_)
SortNewestFirst(S) ==
  IF S = {} THEN <<>>
  ELSE LET first == CHOOSE a \in S : \A b \in S : DateTime(a) >= DateTime(b)
       IN  <<first>> \o SortNewestFirst(S \ {first})

\* the slots of the slot selector
AvailableSlots == {"slot-1"}

MissingSlotMessage == "Debe seleccionar un horario disponible"
InvalidSlotMessage == "Horario seleccionado no valido"

ManagementToast(title, description) ==
  [shown |-> TRUE, title |-> title, description |-> description]

\* a call of appointmentService; appointmentId is 0 for createAppointment
ServiceCall(op, appointmentId) == [op |-> op, appointmentId |-> appointmentId]

\* the page has been mounted for a logged-in user and its effect has called
\* loadAppointments()
InitManagement ==
  /\ location = AppointmentsPath
  /\ \E u \in Users : LoggedIn(u)
  /\ appointments = <<>>
  /\ loading = TRUE
  /\ error = ""
  /\ isOpen = FALSE
  /\ formLoading = FALSE
  /\ formError = ""
  /\ toast = NoToast
  /\ apptLoads = 1
  /\ NoManagement
  /\ NoHistory
  /\ checkItems = <<>>
  /\ selectedAppointment = NoAppointment
  /\ itemScores = ZeroScores
  /\ observation = <<>>
  /\ requests = <<>>
  /\ itemsLoad = FALSE

\* the Actualizar button of the page: isLoading={loading}
managementRefresh ==
  /\ ManagementMounted
  /\ ~isOpen
  /\ ~loading
  /\ apptLoads < MaxLoads
  /\ StartLoadAppointments
  /\ toast' = NoToast
  /\ UNCHANGED <<historyVars, sessionVars, inspectionVars, managementVars, location,
                 appointments, isOpen, formLoading, formError>>

\* loadAppointments of the page: every appointment of the answer, newest
\* first
managementListResolves ==
  /\ ManagementMounted
  /\ apptLoads > 0
  /\ \E appointmentsList \in AppointmentResponses :
       appointments' = SortNewestFirst(appointmentsList)
  /\ loading' = FALSE
  /\ apptLoads' = apptLoads - 1
  /\ toast' = NoToast
  /\ UNCHANGED <<historyVars, sessionVars, inspectionVars, managementVars, location, error,
                 isOpen, formLoading, formError>>

managementListRejects ==
  /\ ManagementMounted
  /\ apptLoads > 0
  /\ \E err \in LoadErrors :
       IF RedirectsToLogin(err) THEN Unload
       ELSE /\ error' = getApiErrorMessage(err)
            /\ loading' = FALSE
            /\ apptLoads' = apptLoads - 1
            /\ toast' = NoToast
            /\ UNCHANGED <<historyVars, sessionVars, inspectionVars, managementVars,
                           location, appointments, isOpen, formLoading,
                           formError>>

\* the Crear Turno button
handleCreate ==
  /\ ManagementMounted
  /\ CreateButtonRendered
  /\ ~isOpen
  /\ isCreateMode' = TRUE
  /\ editingAppointment' = NoAppointment
  /\ formData' = EmptyForm
  /\ formError' = ""
  /\ isOpen' = TRUE
  /\ toast' = NoToast
  /\ UNCHANGED <<historyVars, sessionVars, inspectionVars, location, appointments, loading,
                 error, formLoading, apptLoads, calls>>

\* the Reprogramar button of a row
handleEdit(appointment) ==
  /\ ManagementMounted
  /\ RowRendered(appointment)
  /\ canEdit(appointment)
  /\ isCreateMode' = FALSE
  /\ editingAppointment' = appointment
  /\ formData' = EmptyForm
  /\ formError' = ""
  /\ isOpen' = TRUE
  /\ toast' = NoToast
  /\ UNCHANGED <<historyVars, sessionVars, inspectionVars, location, appointments, loading,
                 error, formLoading, apptLoads, calls>>

\* the slot selector of the modal: isDisabled={formLoading || loadingSlots}
handleFormChange(slot) ==
  /\ ManagementMounted
  /\ isOpen
  /\ ~formLoading
  /\ formData' = [formData EXCEPT !.slot_id = slot]
  /\ formError' = ""
  /\ toast' = NoToast
  /\ UNCHANGED <<historyVars, sessionVars, inspectionVars, location, appointments, loading,
                 error, isOpen, formLoading, apptLoads, isCreateMode,
                 editingAppointment, calls>>

\* handleFormSubmit up to the await; the button of the modal has
\* isLoading={formLoading}
handleFormSubmit ==
  /\ ManagementMounted
  /\ isOpen
  /\ ~formLoading
  /\ Len(calls) + apptLoads < MaxPending
  /\ IF isCreateMode
     THEN /\ formError' = ""
          /\ formLoading' = TRUE
          /\ calls' = Append(calls, ServiceCall("createAppointment", 0))
     ELSE IF formData.slot_id = ""
     THEN /\ formError' = MissingSlotMessage
          /\ formLoading' = FALSE
          /\ calls' = calls
     ELSE IF formData.slot_id \notin AvailableSlots
     THEN /\ formError' = InvalidSlotMessage
          /\ formLoading' = FALSE
          /\ calls' = calls
     ELSE /\ formError' = ""
          /\ formLoading' = TRUE
          /\ calls' = Append(calls,
               ServiceCall("updateAppointment", editingAppointment.id))
  /\ toast' = NoToast
  /\ UNCHANGED <<historyVars, sessionVars, inspectionVars, location, appointments, loading,
                 error, isOpen, apptLoads, isCreateMode, editingAppointment,
                 formData>>

\* the Cancelar button of a row, with window.confirm answered yes
handleCancel(appointment) ==
  /\ ManagementMounted
  /\ RowRendered(appointment)
  /\ canCancel(appointment)
  /\ Len(calls) + apptLoads < MaxPending
  /\ calls' = Append(calls, ServiceCall("cancelAppointment", appointment.id))
  /\ toast' = NoToast
  /\ UNCHANGED <<historyVars, sessionVars, inspectionVars, location, appointments, loading,
                 error, isOpen, formLoading, formError, apptLoads,
                 isCreateMode, editingAppointment, formData>>

\* Modal onClose and the Cancelar button of the modal
managementClose ==
  /\ ManagementMounted
  /\ isOpen
  /\ isOpen' = FALSE
  /\ toast' = NoToast
  /\ UNCHANGED <<historyVars, sessionVars, inspectionVars, managementVars, location,
                 appointments, loading, error, formLoading, formError,
                 apptLoads>>

\* a call of appointmentService is answered
serviceCallResolves(i) ==
  /\ ManagementMounted
  /\ i \in 1..Len(calls)
  /\ apptLoads < MaxLoads
  /\ StartLoadAppointments
  /\ calls' = RemoveAt(calls, i)
  /\ IF calls[i].op = "cancelAppointment"
     THEN /\ toast' = ManagementToast("Turno cancelado",
                    "El turno ha sido cancelado correctamente.")
          /\ UNCHANGED <<isOpen, formLoading>>
     ELSE /\ toast' = IF calls[i].op = "createAppointment"
                     THEN ManagementToast("Turno creado",
                            "El turno ha sido creado correctamente.")
                     ELSE ManagementToast("Turno actualizado",
                            "El turno ha sido actualizado correctamente.")
          /\ isOpen' = FALSE
          /\ formLoading' = FALSE
  /\ UNCHANGED <<historyVars, sessionVars, inspectionVars, location, appointments,
                 formError, isCreateMode, editingAppointment, formData>>

\* a call of appointmentService fails
serviceCallRejects(i, err) ==
  /\ ManagementMounted
  /\ i \in 1..Len(calls)
  /\ IF RedirectsToLogin(err) THEN Unload
     ELSE /\ calls' = RemoveAt(calls, i)
          /\ IF calls[i].op = "cancelAppointment"
             THEN /\ toast' = ManagementToast("Error", getApiErrorMessage(err))
                  /\ UNCHANGED <<formError, formLoading>>
             ELSE /\ formError' = getApiErrorMessage(err)
                  /\ formLoading' = FALSE
                  /\ toast' = NoToast
          /\ UNCHANGED <<historyVars, sessionVars, inspectionVars, location, appointments,
                         loading, error, isOpen, apptLoads, isCreateMode,
                         editingAppointment, formData>>

editRow == \E appointment \in AppointmentObjects : handleEdit(appointment)
cancelRow == \E appointment \in AppointmentObjects : handleCancel(appointment)
selectSlot == \E slot \in AvailableSlots : handleFormChange(slot)
serviceCallAnswers == \E i \in 1..MaxPending : serviceCallResolves(i)
serviceCallFails == \E i \in 1..MaxPending, err \in ApiErrors :
                      serviceCallRejects(i, err)

NextManagement ==
  \/ managementRefresh
  \/ managementListResolves
  \/ managementListRejects
  \/ handleCreate
  \/ editRow
  \/ selectSlot
  \/ handleFormSubmit
  \/ cancelRow
  \/ managementClose
  \/ serviceCallAnswers
  \/ serviceCallFails

SpecManagement == InitManagement /\ [][NextManagement]_vars


(***************************************************************************)
(* Properties of the appointment management page                           *)
(***************************************************************************)
\* C15: on the appointment management page a user with role INSPECTOR
\* reaches no action that calls createAppointment, updateAppointment or
\* cancelAppointment: the create button and the reschedule and cancel buttons
\* of every row are absent whatever the status, the modal never opens and no
\* call of appointmentService is ever in flight.
C15_InspectorReachesNoAction ==
  (ManagementMounted /\ isInspector) =>
    /\ ~CreateButtonRendered
    /\ \A appointment \in AppointmentObjects :
         ~canEdit(appointment) /\ ~canCancel(appointment)
    /\ ~ENABLED handleCreate
    /\ ~ENABLED editRow
    /\ ~ENABLED cancelRow
    /\ ~isOpen
    /\ calls = <<>>

\* an inspector looks at rows of a loaded list, one of them CONFIRMED and
\* one PENDING
C15_Witness ==
  /\ ManagementMounted
  /\ isInspector
  /\ \E a, b \in AppointmentObjects :
       /\ a.status = "CONFIRMED" /\ RowRendered(a)
       /\ b.status = "PENDING" /\ RowRendered(b)

\* the users canEdit and canCancel may be rendered for: the three roles, no
\* user at all, and a user whose role is missing
RenderUsers == Users \cup {NoUser, User(1, NoRole)}

\* C20: canEdit and canCancel are false for every COMPLETED or CANCELLED
\* appointment whatever the role, true for ADMIN and CLIENT on PENDING and
\* CONFIRMED appointments, and false for INSPECTOR and for an unresolved role
\* on every status; the buttons of the rendered rows follow them.
C20_CanEditCanCancelTable ==
  /\ \A u \in RenderUsers, appointment \in AppointmentObjects :
       LET open == appointment.status \in {"PENDING", "CONFIRMED"}
           allowed == u.role \in {"ADMIN", "CLIENT"}
       IN  /\ canEditAs(u, appointment) = (open /\ allowed)
           /\ canCancelAs(u, appointment) = (open /\ allowed)
  /\ \A appointment \in AppointmentObjects :
       /\ canEdit(appointment) = canEditAs(user, appointment)
       /\ canCancel(appointment) = canCancelAs(user, appointment)
       /\ ENABLED handleEdit(appointment) =>
            /\ appointment.status \in {"PENDING", "CONFIRMED"}
            /\ user.role \in {"ADMIN", "CLIENT"}
       /\ ENABLED handleCancel(appointment) =>
            /\ appointment.status \in {"PENDING", "CONFIRMED"}
            /\ user.role \in {"ADMIN", "CLIENT"}

\* an admin looks at a CONFIRMED row that has both buttons next to a
\* CANCELLED row that has none, after a cancellation has been sent
C20_Witness ==
  /\ ManagementMounted
  /\ isAdmin
  /\ \E i \in 1..Len(calls) : calls[i].op = "cancelAppointment"
  /\ \E a, b \in AppointmentObjects :
       /\ a.status = "CONFIRMED" /\ RowRendered(a)
       /\ canEdit(a) /\ canCancel(a)
       /\ b.status = "CANCELLED" /\ RowRendered(b)
       /\ ~canEdit(b) /\ ~canCancel(b)


\* C19: every failed completeAppointment request that leaves the scoring
\* dialog on the page puts a non-empty error message into the dialog, for
\* every error shape of the formatter: string detail, list of validation
\* errors (the empty list included), status code only, no response at all.
C19_FailureShowsMessage ==
  [][\A i \in 1..MaxPending, err \in ApiErrors :
       (completeAppointmentRejects(i, err) /\ ~RedirectsToLogin(err)) =>
         formError' # ""]_vars


(***************************************************************************)
(* Properties of the answers that arrive late or fail                      *)
(***************************************************************************)
\* C27: after a completeAppointment request for an appointment has
\* succeeded, and until a list answer has replaced the table, the page starts
\* no other scoring session and sends no other completeAppointment request
\* for that appointment, also when the reload that follows the success fails
\* or has not finished.
C27_NoSecondSessionForCompleted ==
  [][/\ \A apt \in AppointmentObjects :
          handleStartInspection(apt) => apt.id \notin completedIds
     /\ (handleSubmit /\ Len(requests') > Len(requests)) =>
          selectedAppointment.id \notin completedIds]_vars


\* a request that is still pending while the dialog is open on another
\* appointment than the one it was sent for
LateFor(i) ==
  /\ i \in 1..Len(requests)
  /\ isOpen
  /\ requests[i].appointmentId # selectedAppointment.id

\* C26: the answer to a completeAppointment request affects only the scoring
\* session that sent it: when the dialog has been dismissed and opened on
\* another appointment meanwhile, a late success does not close that dialog
\* and a late failure does not put its message into it.
C26_LateAnswerLeavesNewSession ==
  [][\A i \in 1..MaxPending :
       /\ (LateFor(i) /\ completeAppointmentResolves(i)) => isOpen'
       /\ \A err \in ApiErrors :
            (LateFor(i) /\ ~RedirectsToLogin(err)
                        /\ completeAppointmentRejects(i, err)) =>
              formError' = formError]_vars


(***************************************************************************)
(* The response interceptor of services/api.js, step by step               *)
(***************************************************************************)
\* error.config.url, as its path segments; <<>> when error.config has no url
NoUrl == <<>>
LoginUrl == <<"auth", "login">>
EndpointUrls ==
  { NoUrl, LoginUrl, <<"auth", "logout">>, <<"auth", "register">>,
    <<"users", "me">>, <<"appointments">>,
    <<"appointments", "1", "complete">>, <<"check-items">> }

\* url.includes(part)
Includes(url, part) ==
  \E k \in 0..(Len(url) - Len(part)) :
    \A j \in 1..Len(part) : url[k + j] = part[j]

\* variant: no endpoint is exempt
isLoginEndpoint_Never(url) == FALSE

\* error.config?.url?.includes('/auth/login')
isLoginEndpoint(url) == url # NoUrl /\ Includes(url, LoginUrl)

\* the errors that reach the interceptor in this model
InterceptedErrors ==
  { NetworkError,
    HttpError(401, NoDetail),
    HttpError(401, StringDetail("Could not validate credentials")),
    HttpError(403, NoDetail),
    HttpError(422, ListDetail(<<>>)),
    HttpError(500, NoDetail) }

\* the sessions that localStorage may hold
StoredSessions ==
  {NoItems} \cup
  { [token |-> t, user |-> JSONstringify(u)] : t \in Tokens, u \in Users }

\* the application is rendered at some path, with or without a session, and
\* no request has failed yet
InitInterceptor ==
  /\ location \in Paths
  /\ NoPage
  /\ NoManagement
  /\ NoHistory
  /\ localStorage \in StoredSessions
  /\ user = StoredUserOf(localStorage)
  /\ authLoading = FALSE
  /\ authCalls = NoAuthCalls

\* the error callback of api.interceptors.response, before the browser
\* follows window.location.href
responseError(url, err) ==
  /\ IF err.hasResponse /\ err.status = 401 /\ ~isLoginEndpoint(url)
     THEN /\ localStorage' = NoItems
          /\ location' = LoginPath
     ELSE UNCHANGED <<localStorage, location>>
  /\ rejected' = <<err>>
  /\ UNCHANGED <<completedIds, pageVars, managementVars, user, authLoading,
                 authCalls>>

requestFails == \E url \in EndpointUrls, err \in InterceptedErrors :
                  responseError(url, err)

NextInterceptor == requestFails

SpecInterceptor == InitInterceptor /\ [][NextInterceptor]_vars

\* C21: a 401 from any endpoint other than /auth/login removes the stored
\* token and the stored user and redirects to /login, and the error still
\* goes to the caller; a 401 from /auth/login, and every error that is not a
\* 401, leaves the stored token and user as they are and does not redirect.
C21_InterceptorOn401 ==
  [][\A url \in EndpointUrls, err \in InterceptedErrors :
       responseError(url, err) =>
         /\ rejected' = <<err>>
         /\ IF err.hasResponse /\ err.status = 401 /\ url # LoginUrl
            THEN localStorage' = NoItems /\ location' = LoginPath
            ELSE localStorage' = localStorage /\ location' = location]_vars

\* a 401 has cleared the session of a user who is still in memory, and the
\* caller has been given the error
C21_Witness ==
  /\ rejected = <<HttpError(401, NoDetail)>>
  /\ user # NoUser
  /\ localStorage = NoItems
  /\ location = LoginPath


(***************************************************************************)
(* LoginPage alone: its error and loading cells and the error formatter    *)
(***************************************************************************)
\* the longest list of validation errors that /auth/login answers with
MaxEntries == 3

\* the entries of the validation lists: with a field name, without loc, with
\* the index of a list element as the last element of loc
FieldEntries ==
  { Entry(<<"e", "m", "a", "i", "l">>, FALSE, "Invalid email format"),
    Entry(<<"p", "a", "s", "s">>, FALSE, "Too short"),
    Entry(<<"n", "a", "m", "e">>, FALSE, "Field is required"),
    Entry(<<>>, FALSE, "Validation error"),
    Entry(<<"0">>, TRUE, "Not a string"),
    Entry(<<"3">>, TRUE, "Not an integer") }

EntryLists ==
  UNION { [1..n -> FieldEntries] : n \in 0..MaxEntries }

FormatterDetails ==
  { NoDetail, StringDetail(""), StringDetail("Invalid credentials") }
  \cup { ListDetail(es) : es \in EntryLists }

FormatterStatuses == {400, 401, 403, 404, 418, 422, 500}

FormatterErrors ==
  {NetworkError}
  \cup { HttpError(st, d) : st \in FormatterStatuses, d \in FormatterDetails }

\* LoginPage is shown to a visitor: useState('') of error, useState(false)
\* of loading
InitLogin ==
  /\ location = LoginPath
  /\ appointments = <<>>
  /\ checkItems = <<>>
  /\ loading = FALSE
  /\ error = ""
  /\ isOpen = FALSE
  /\ selectedAppointment = NoAppointment
  /\ itemScores = ZeroScores
  /\ observation = <<>>
  /\ formLoading = FALSE
  /\ formError = ""
  /\ toast = NoToast
  /\ requests = <<>>
  /\ apptLoads = 0
  /\ itemsLoad = FALSE
  /\ NoManagement
  /\ NoHistory
  /\ user = NoUser
  /\ authLoading = FALSE
  /\ localStorage = NoItems
  /\ authCalls = NoAuthCalls

\* LoginPage.handleSubmit up to the await, with the cells of the page; the
\* form is disabled while loading
loginFormSubmit ==
  /\ location = LoginPath
  /\ ~loading
  /\ error' = ""
  /\ loading' = TRUE
  /\ authCalls' = [authCalls EXCEPT !.login = @ + 1]
  /\ UNCHANGED <<historyVars, managementVars, inspectionVars, location,
                 appointments, isOpen, formLoading, formError, toast,
                 apptLoads, user, authLoading, localStorage>>

\* /auth/login fails: catch and finally of LoginPage.handleSubmit; when the
\* formatter throws, setError is not reached
loginFormFails(err) ==
  /\ location = LoginPath
  /\ authCalls.login > 0
  /\ LET message == getApiErrorMessage(err)
     IN  error' = IF message = Thrown THEN error ELSE message
  /\ loading' = FALSE
  /\ authCalls' = [authCalls EXCEPT !.login = @ - 1]
  /\ UNCHANGED <<historyVars, managementVars, inspectionVars, location,
                 appointments, isOpen, formLoading, formError, toast,
                 apptLoads, user, authLoading, localStorage>>

loginFormRejected == \E err \in FormatterErrors : loginFormFails(err)

NextLogin == loginFormSubmit \/ loginFormRejected

SpecLogin == InitLogin /\ [][NextLogin]_vars

\* the message of one entry as the claim words it: prefixed with the
\* capitalised last element of loc when loc is present
ClaimedEntryMessage(e) ==
  IF e.field # <<>>
  THEN ToUpperCase(Head(e.field)) \o Chars(Tail(e.field)) \o ": " \o e.msg
  ELSE e.msg

RECURSIVE ClaimedJoin(_)
ClaimedJoin(es) ==
  IF es = <<>> THEN ""
  ELSE IF Len(es) = 1 THEN ClaimedEntryMessage(es[1])
  ELSE ClaimedEntryMessage(es[1]) \o ", " \o ClaimedJoin(Tail(es))

ClaimedStatusMessage(err) ==
  IF err.hasResponse /\ err.status = 400 THEN "Datos invalidos"
  ELSE IF err.hasResponse /\ err.status = 401 THEN "No autorizado"
  ELSE IF err.hasResponse /\ err.status = 403 THEN "Acceso denegado"
  ELSE IF err.hasResponse /\ err.status = 404 THEN "No encontrado"
  ELSE IF err.hasResponse /\ err.status = 422 THEN "Error de validacion"
  ELSE IF err.hasResponse /\ err.status = 500 THEN "Error del servidor"
  ELSE "Error en la conexion con el servidor"

\* C22: getApiErrorMessage returns the detail string when the detail is a
\* string, whatever the status; for a detail list the messages of the
\* entries joined by ', ', each prefixed with the capitalised last element of
\* loc when loc is present; with no detail the fixed message of status 400,
\* 401, 403, 404, 422 or 500, and the connection-error message for any other
\* status or without a response. LoginPage shows what it returns.
C22_FormatterMessages ==
  [][\A err \in FormatterErrors :
       loginFormFails(err) =>
         error' = IF err.hasResponse /\ err.detail.kind = "string"
                  THEN err.detail.text
                  ELSE IF err.hasResponse /\ err.detail.kind = "list"
                  THEN ClaimedJoin(err.detail.entries)
                  ELSE ClaimedStatusMessage(err)]_vars


(***************************************************************************)
(* Properties of the submission                                            *)
(***************************************************************************)
\* C23: every handleSubmit leaves the Submitting phase: a validation that
\* fails (EmptySubmission, ScoreOverflow) ends with formLoading false, every
\* step that takes a completeAppointment request out of flight (success,
\* remote error) sets formLoading back to false, and formLoading is never
\* true without a request that is still to be answered.
C23_SubmittingIsLeft ==
  [][/\ formLoading' => Len(requests') > 0
     /\ ((handleSubmit \/ invokeHandleSubmit) /\ requests' = requests) =>
          ~formLoading'
     /\ Len(requests') < Len(requests) => ~formLoading']_vars

\* the request of a session has been answered with success: the dialog is
\* closed, the list is being loaded again and the page is not submitting
C23_Witness ==
  /\ toast.shown
  /\ ~formLoading
  /\ requests = <<>>
  /\ ~isOpen
  /\ loading

\* C30: submitting when the total exceeds 80 ends with the ScoreOverflow
\* message and issues no completeAppointment request; the scores, the
\* observation and the selected appointment are unchanged and the dialog
\* stays open.
C30_OverflowRejectedLocally ==
  [][(handleSubmit /\ calculateTotalScore # NaN
                   /\ calculateTotalScore > MaxTotal) =>
       /\ formError' = ScoreOverflowMessage
       /\ requests' = requests
       /\ ~formLoading'
       /\ itemScores' = itemScores
       /\ observation' = observation
       /\ selectedAppointment' = selectedAppointment
       /\ isOpen']_vars

\* a total above 80 has been submitted and turned down
C30_Witness ==
  /\ formError = ScoreOverflowMessage
  /\ isOpen
  /\ calculateTotalScore # NaN
  /\ calculateTotalScore > MaxTotal
  /\ requests = <<>>


(***************************************************************************)
(* Properties of the score entry model                                     *)
(***************************************************************************)
\* a catalog with two templates more than the eight slots
GrownTemplates == NumItems + 2

\* a dialog open on an appointment, with that catalog loaded
InitGrown ==
  /\ location = PagePath
  /\ appointments = SortByDate({ Appointment(a, "CONFIRMED") : a \in Appts })
  /\ checkItems = [i \in 1..GrownTemplates |-> i]
  /\ loading = FALSE
  /\ error = ""
  /\ isOpen = TRUE
  /\ selectedAppointment = Appointment(1, "CONFIRMED")
  /\ itemScores = ZeroScores
  /\ observation = <<>>
  /\ formLoading = FALSE
  /\ formError = ""
  /\ toast = NoToast
  /\ requests = <<>>
  /\ apptLoads = 0
  /\ itemsLoad = FALSE
  /\ LoggedIn(User(2, "INSPECTOR"))
  /\ NoManagement
  /\ NoHistory

grownScoreInput ==
  \E index \in 0..(GrownTemplates - 1), value \in CatalogInputs :
    handleScoreChange(index, value)

NextGrown == grownScoreInput

SpecGrown == InitGrown /\ [][NextGrown]_vars

\* C24: no reachable score state has a total below 40 with no item below 5,
\* so in every reachable state isPassed() equals NOT hasFailingItem() and the
\* total >= 40 condition never changes the verdict.
C24_VerdictIsVetoAlone ==
  /\ ~(calculateTotalScore # NaN /\ calculateTotalScore < PassTotal
                                 /\ ~hasFailingItem)
  /\ isPassed = ~hasFailingItem

\* C25: handleScoreChange(index, value) with index in 0..7 changes only the
\* score at that index: the other seven scores, the selected appointment,
\* the observation and the dialog-open flag are unchanged, and the form
\* error is cleared.
C25_ScoreChangeFrame ==
  [][\A index \in 0..(NumItems - 1), value \in ScoreInputs :
       handleScoreChange(index, value) =>
         /\ \A other \in 0..(NumItems - 1) :
              other # index => itemScores'[other + 1] = itemScores[other + 1]
         /\ itemScores'[index + 1] = ClampScore(value)
         /\ selectedAppointment' = selectedAppointment
         /\ observation' = observation
         /\ isOpen' = isOpen
         /\ formError' = ""]_vars

\* two scores have been entered one after the other in a dialog that has an
\* observation, and no form error is left
C25_Witness ==
  /\ isOpen
  /\ observation # <<>>
  /\ formError = ""
  /\ Cardinality({ index \in 1..NumItems : itemScores[index] > 0 }) = 2
  /\ requests = <<>>

\* C28: when listTemplates has given fewer than 8 templates (also none, as
\* after a failed load), the scores without a rendered input stay 0, so
\* isPassed() is false in every state and no submission is sent or reported
\* as passed.
C28_TooFewTemplatesNeverPass ==
  Len(checkItems) < NumItems =>
    /\ \A index \in Len(checkItems)..(Len(itemScores) - 1) :
         itemScores[index + 1] = 0
    /\ ~isPassed
    /\ \A i \in 1..Len(requests) : ~isPassedOf(requests[i].body.item_scores)
    /\ toast.shown => ~toast.passed

\* seven templates, seven scores of 10 submitted and answered: the toast
\* reports 70 points and a rejection
C28_Witness ==
  /\ Len(checkItems) = NumItems - 1
  /\ toast.shown
  /\ toast.total = MaxItemScore * (NumItems - 1)
  /\ ~toast.passed


(***************************************************************************)
(* Properties of the session check                                         *)
(***************************************************************************)
\* a step of login, logout or register: a submit or an answer that the
\* interceptor does not turn into a reload
AuthStep ==
  \/ handleLoginSubmit
  \/ loginAnswers
  \/ loginRejects
  \/ userAnswers
  \/ getCurrentUserRejects(NetworkError)
  \/ handleLogout
  \/ logoutResolves
  \/ logoutRejects(NetworkError)
  \/ handleRegisterSubmit
  \/ registerResolves
  \/ registerRejects(NetworkError)

\* C29: while the session check is in progress (loading true) ProtectedRoute
\* renders neither the page nor a redirect to /login nor Access Denied;
\* loading starts true, becomes false once, by the effect that has examined
\* the stored session, and no step of login, logout or register sets it
\* back to true: it is true again only in an AuthProvider that the browser
\* has constructed anew.
C29_LoadingGuardsRoutes ==
  /\ [](authLoading =>
         \A routes \in RouteTables :
           \A path \in ProtectedPaths(routes) :
             RenderedAt(routes, path) = Spinner)
  /\ [][/\ AuthStep => (authLoading' = authLoading /\ ~authLoading)
        /\ (authLoading /\ ~authLoading') => initAuth
        /\ (~authLoading /\ authLoading') =>
             (user' = NoUser /\ authCalls' = NoAuthCalls)]_vars

\* the application has been loaded again at a protected path with a stored
\* session: the check has not run yet and the route shows the spinner
C29_Witness ==
  /\ authLoading
  /\ user = NoUser
  /\ getStoredToken # ""
  /\ getStoredUser # NoUser
  /\ location \in ProtectedPaths(AppRoutes)
  /\ Rendered = Spinner

====
